---- MODULE Spec2Model ----
(***************************************************************************)
(* JournalWriter (journal.go): a log sink that sends entries to journald   *)
(* over a unixgram socket, with lazy one-time socket setup (sync.Once),    *)
(* a pooled encode buffer, and a tempfile + ancillary-fd fallback for      *)
(* datagrams the kernel refuses as too large.                              *)
(*                                                                         *)
(* Goroutines are the processes of the model.  Each one issues calls of    *)
(* WriteEntry or Close on one shared sink; a call advances in steps at     *)
(* the points where it touches shared state (the Once, the socket, the     *)
(* pool, the filesystem).  Deferred calls run in the step that returns.    *)
(***************************************************************************)
EXTENDS Integers, Sequences, FiniteSets, TLC

(* ---- bounds ---- *)
NumProcs == 2          \* goroutines using the sink
MaxCalls == 3          \* calls issued on the sink, all goroutines together
MaxBufs  == 2          \* buffers the pool ever allocates (>= NumProcs)

Procs == 1..NumProcs

(* ---- bytes and strings (sequences of byte values) ---- *)
NL == 10
EQ == 61

PRIORITY == <<80, 82, 73, 79, 82, 73, 84, 89>>
MESSAGE  == <<77, 69, 83, 83, 65, 71, 69>>
JSON     == <<74, 83, 79, 78>>

DefaultSocket == "/run/systemd/journal/socket"
Sockets == {"", "/custom/socket"}

(* ---- error values ---- *)
(* type  : dynamic type of the error value (what a type assertion sees)    *)
(* inner : dynamic type of OpError.Err                                     *)
(* errno : the syscall.Errno inside an os.SyscallError (or a bare Errno)   *)
(* origin: the operation that produced the value (its identity)            *)
MkErr(t, i, no, o) == [type |-> t, inner |-> i, errno |-> no, origin |-> o]
NoErr == MkErr("nil", "none", "none", "none")

SysOpErr(no, o) == MkErr("OpError", "SyscallError", no, o)
ClosedErr(o)    == MkErr("OpError", "ErrClosed", "none", o)
EINVALErr(o)    == MkErr("Errno", "none", "EINVAL", o)
DecodeErr       == MkErr("DecodeError", "none", "none", "decode")

(* ---- log entries ---- *)
(* An entry is its raw bytes e.buf.  jsonToDot (defined outside this file) *)
(* parses them into Level, Message and the ordered key/value pairs, or     *)
(* fails.                                                                  *)
BadBuf   == <<123>>
InfoBuf  == <<123, 125>>
MultiBuf == <<123, 10, 125>>

Entries == {BadBuf, InfoBuf, MultiBuf}

jsonToDot(buf) ==
    CASE buf = InfoBuf  -> [ok |-> TRUE, Level |-> "info", Message |-> <<104, 105>>,
                            KeyValue |-> <<>>]
      [] buf = MultiBuf -> [ok |-> TRUE, Level |-> "unknown", Message |-> <<97, 10, 98>>,
                            KeyValue |-> << [Key |-> <<117>>, Value |-> <<120>>] >>]
      [] OTHER          -> [ok |-> FALSE, Level |-> "unknown", Message |-> <<>>,
                            KeyValue |-> <<>>]

(* ---- the field encoder ---- *)
ContainsNL(s) == \E i \in 1..Len(s) : s[i] = NL

\* binary.Write(w, binary.LittleEndian, uint64(k))
RECURSIVE PutUint(_, _)
PutUint(k, width) ==
    IF width = 0 THEN <<>> ELSE <<k % 256>> \o PutUint(k \div 256, width - 1)

\* the length written most significant byte first
RECURSIVE PutUintBE(_, _)
PutUintBE(k, width) ==
    IF width = 0 THEN <<>> ELSE PutUintBE(k \div 256, width - 1) \o <<k % 256>>
BigEndian64(k) == PutUintBE(k, 8)

LittleEndian64(k) == PutUint(k, 8)

\* strings.ToUpper on ASCII bytes
ToUpper(s) == [i \in 1..Len(s) |-> IF s[i] >= 97 /\ s[i] <= 122 THEN s[i] - 32 ELSE s[i]]

\* a plain form that separates name and value with a colon
printColon(B, name, value) ==
    IF ContainsNL(value)
    THEN B \o name \o <<NL>> \o LittleEndian64(Len(value)) \o value \o <<NL>>
    ELSE B \o name \o <<58>> \o value \o <<NL>>

\* the print closure: append one field to the buffer
print(B, name, value) ==
    IF ContainsNL(value)
    THEN B \o name \o <<NL>> \o LittleEndian64(Len(value)) \o value \o <<NL>>
    ELSE B \o name \o <<EQ>> \o value \o <<NL>>

\* a mapping that lost the warn case
priorityNoWarn(level) ==
    CASE level = "trace" -> <<55>>
      [] level = "debug" -> <<55>>
      [] level = "info"  -> <<54>>
      [] level = "error" -> <<51>>
      [] level = "fatal" -> <<50>>
      [] level = "panic" -> <<48>>
      [] OTHER           -> <<53>>

priority(level) ==
    CASE level = "trace" -> <<55>>
      [] level = "debug" -> <<55>>
      [] level = "info"  -> <<54>>
      [] level = "warn"  -> <<52>>
      [] level = "error" -> <<51>>
      [] level = "fatal" -> <<50>>
      [] level = "panic" -> <<48>>
      [] OTHER           -> <<53>>

RECURSIVE printFields(_, _, _)
printFields(B, kvs, i) ==
    IF i > Len(kvs) THEN B
    ELSE printFields(print(B, ToUpper(kvs[i].Key), kvs[i].Value), kvs, i + 1)

\* a checkout that keeps the logical length
ResetSkipped(B) == B

\* b.B = b.B[:0]: the logical length drops to zero
Reset(B) == SubSeq(B, 1, 0)

\* the JSON field rendered before the caller's fields
EncodeJSONEarly(B, t, buf) ==
    LET b1 == print(B, PRIORITY, priority(t.Level))
        b2 == print(b1, MESSAGE, t.Message)
        b3 == print(b2, JSON, buf)
    IN  printFields(b3, t.KeyValue, 1)

\* everything WriteEntry renders into the buffer B for the decoded record t
\* of the raw bytes buf
EncodeDot(B, t, buf) ==
    LET b1 == print(B, PRIORITY, priority(t.Level))
        b2 == print(b1, MESSAGE, t.Message)
        b3 == printFields(b2, t.KeyValue, 1)
    IN  print(b3, JSON, buf)

Encode(B, buf) == EncodeDot(B, jsonToDot(buf), buf)

(* ---- library calls whose outcome the environment decides ---- *)

\* net.ResolveUnixAddr: fails only for a network name that is not a unix one
ResolveUnixAddr(network) ==
    IF network \in {"unix", "unixgram", "unixpacket"}
    THEN NoErr
    ELSE MkErr("UnknownNetworkError", "none", "none", "init")

\* net.ListenUnixgram(autobind): a bound socket, or the error of socket/bind
ListenErrnos == {"EMFILE"}
ListenUnixgram == {[conn |-> "open", err |-> NoErr]} \cup
                  {[conn |-> "nil", err |-> SysOpErr(no, "init")] : no \in ListenErrnos}

\* (*net.UnixConn).WriteMsgUnix on a connection in state c, for a payload of
\* k bytes: a nil receiver answers EINVAL, a closed one "use of closed
\* network connection", an open one whatever sendmsg(2) answers.
SendErrnos == {"EMSGSIZE", "ENOBUFS", "ECONNREFUSED"}
WriteMsgUnix(c, k, o) ==
    CASE c = "nil"    -> {[n |-> 0, err |-> EINVALErr(o)]}
      [] c = "closed" -> {[n |-> 0, err |-> ClosedErr(o)]}
      [] OTHER        -> {[n |-> k, err |-> NoErr]} \cup
                         {[n |-> 0, err |-> SysOpErr(no, o)] : no \in SendErrnos}

\* a fallback test that accepts every errno
IsSyscallFailure(err) ==
    /\ err.type = "OpError"
    /\ err.inner = "SyscallError"

\* the type assertions and errno test that decide whether to fall back
IsSizeLimit(err) ==
    /\ err.type = "OpError"
    /\ err.inner = "SyscallError"
    /\ err.errno \in {"EMSGSIZE", "ENOBUFS"}

\* ioutil.TempFile("/dev/shm/", ...)
TempFile == {NoErr, MkErr("PathError", "none", "ENOSPC", "tempfile")}
\* syscall.Unlink(file.Name())
Unlink == {NoErr, MkErr("Errno", "none", "EACCES", "unlink")}
\* file.Write(b.B) for k bytes: all of them, or an error after a short write
FileWrite(k) == {[n |-> k, err |-> NoErr]} \cup
                {[n |-> j, err |-> MkErr("PathError", "none", "ENOSPC", "write")] : j \in {0, k \div 2}}

(* ---- state ---- *)
VARIABLES
    JournalSocket,  \* the configured socket name ("" = default)
    done,           \* once: 1 when the setup function has run
    m,              \* once: holder of the mutex, 0 when free
    addr,           \* w.addr: "nil" or the destination name
    conn,           \* w.conn: "nil", "open" or "closed"
    pool,           \* bbpool: ids of the buffers at rest in the pool
    bufB,           \* b.B of every buffer allocated so far, by id
    files,          \* temp files that have a name or an open descriptor, by id
    pc,             \* position of each goroutine
    calls,          \* calls issued so far
    call,           \* the current (or last) call of each goroutine
    seen,           \* goroutine has synchronised with the Once
    setupRuns,      \* history: times the setup function ran
    endpoints,      \* history: sockets ListenUnixgram created
    setupErr,       \* history: the error setup ended with
    closeReturned,  \* history: some Close has returned
    lastDone        \* history: the last call that returned, and a Close's result

vars == <<JournalSocket, done, m, addr, conn, pool, bufB, files,
          pc, calls, call, seen, setupRuns, endpoints, setupErr,
          closeReturned, lastDone>>

sink  == <<JournalSocket, done, m, addr, conn>>
world == <<pool, bufB, files>>
hist  == <<setupRuns, endpoints, setupErr>>

NoCall == [op |-> "none", id |-> 0, buf |-> <<>>, n |-> 0, err |-> NoErr, out |-> <<>>,
           b |-> 0, file |-> 0, deferClose |-> FALSE,
           gets |-> 0, puts |-> 0, direct |-> 0, anc |-> 0, tmp |-> 0,
           ranSetup |-> FALSE, afterClose |-> FALSE, afterInitFail |-> FALSE,
           sendErr |-> NoErr, wire |-> <<>>,
           t |-> [ok |-> FALSE, Level |-> "unknown", Message |-> <<>>, KeyValue |-> <<>>],
           prev |-> [op |-> "none", err |-> NoErr], how |-> "none"]

Init ==
    /\ JournalSocket \in Sockets
    /\ done = 0
    /\ m = 0
    /\ addr = "nil"
    /\ conn = "nil"
    /\ pool = {}
    /\ bufB = <<>>
    /\ files = <<>>
    /\ pc = [p \in Procs |-> "idle"]
    /\ calls = 0
    /\ call = [p \in Procs |-> NoCall]
    /\ seen = [p \in Procs |-> FALSE]
    /\ setupRuns = 0
    /\ endpoints = 0
    /\ setupErr = NoErr
    /\ closeReturned = FALSE
    /\ lastDone = [op |-> "none", err |-> NoErr]

(* ---- returning from a call ---- *)
\* file.Close(): the descriptor goes, and with it a file that has no name
FileClose(fs, id) ==
    IF fs[id].named
    THEN [fs EXCEPT ![id].open = FALSE]
    ELSE [i \in DOMAIN fs \ {id} |-> fs[i]]

\* a call that never put its buffer back
PutOnlyOnSuccess(c) == c.b # 0 /\ c.err = NoErr

\* defer bbpool.Put(b), registered as soon as the buffer is checked out
PutDeferred(c) == c.b # 0

\* c is the call as the return statement leaves it and fs the files at that
\* point; the deferred file.Close() and bbpool.Put(b) run here.
Returns(p, c, fs) ==
    /\ pc' = [pc EXCEPT ![p] = "idle"]
    /\ call' = [call EXCEPT ![p] =
                  [c EXCEPT !.puts = IF PutDeferred(c) THEN @ + 1 ELSE @, !.b = 0]]
    /\ pool' = IF PutDeferred(c) THEN pool \cup {c.b} ELSE pool
    /\ files' = IF c.deferClose THEN FileClose(fs, c.file) ELSE fs
    /\ lastDone' = [op |-> c.op, err |-> NoErr]

(* ---- WriteEntry ---- *)
\* a goroutine calls w.WriteEntry(e): n = 0, err = nil
Start(p, buf) ==
    /\ pc[p] = "idle"
    /\ calls < MaxCalls
    /\ calls' = calls + 1
    /\ call' = [call EXCEPT ![p] =
                  [NoCall EXCEPT !.op = "WriteEntry", !.id = calls + 1, !.buf = buf,
                                 !.afterClose = closeReturned,
                                 !.afterInitFail = (setupErr # NoErr)]]
    /\ pc' = [pc EXCEPT ![p] = "once"]
    /\ UNCHANGED <<sink, world, hist, seen, closeReturned, lastDone>>

\* once.Do, fast path: the atomic load of done
OnceDo(p) ==
    /\ pc[p] = "once"
    /\ IF done = 1
       THEN /\ pc' = [pc EXCEPT ![p] = "body"]
            /\ seen' = [seen EXCEPT ![p] = TRUE]
       ELSE /\ pc' = [pc EXCEPT ![p] = "lock"]
            /\ seen' = seen
    /\ UNCHANGED <<sink, world, hist, calls, call, closeReturned, lastDone>>

\* once.doSlow: o.m.Lock()
OnceLock(p) ==
    /\ pc[p] = "lock"
    /\ m = 0
    /\ m' = p
    /\ pc' = [pc EXCEPT ![p] = "slow"]
    /\ UNCHANGED <<JournalSocket, done, addr, conn, world, hist, calls, call,
                   seen, closeReturned, lastDone>>

\* a destination that ignores the configured name
DestinationDefault == DefaultSocket

\* w.addr.Name: JournalSocket, or the well-known path when that is empty
Destination == IF JournalSocket = "" THEN DefaultSocket ELSE JournalSocket

\* the function handed to once.Do: set w.addr, resolve the autobind address,
\* listen; err is the named result of the call that runs it
Setup(p) ==
    /\ addr' = Destination
    /\ setupRuns' = setupRuns + 1
    /\ LET r == ResolveUnixAddr("unixgram") IN
       IF r # NoErr
       THEN /\ conn' = conn
            /\ endpoints' = endpoints
            /\ setupErr' = r
            /\ call' = [call EXCEPT ![p].err = r, ![p].ranSetup = TRUE]
       ELSE \E l \in ListenUnixgram :
            /\ conn' = l.conn
            /\ endpoints' = IF l.err = NoErr THEN endpoints + 1 ELSE endpoints
            /\ setupErr' = l.err
            /\ call' = [call EXCEPT ![p].err = l.err, ![p].ranSetup = TRUE]

\* a guard that forgets the setup already ran
OnceRunsAlways == TRUE

\* once.doSlow re-reads done under the lock: f runs only the first time
OnceMustRun == done = 0

\* once.doSlow under the lock: run f unless done, store done, unlock
OnceSlow(p) ==
    /\ pc[p] = "slow"
    /\ m = p
    /\ IF OnceMustRun
       THEN Setup(p)
       ELSE UNCHANGED <<addr, conn, hist, call>>
    /\ done' = 1
    /\ m' = 0
    /\ seen' = [seen EXCEPT ![p] = TRUE]
    /\ pc' = [pc EXCEPT ![p] = "body"]
    /\ UNCHANGED <<JournalSocket, world, calls, closeReturned, lastDone>>

\* a pool that hands out buffers that are still checked out
GetShared == (1..Len(bufB)) \cup (IF Len(bufB) < MaxBufs THEN {Len(bufB) + 1} ELSE {})

\* bbpool.Get(): a buffer at rest in the pool, or a new one
Get == pool \cup (IF Len(bufB) < MaxBufs THEN {Len(bufB) + 1} ELSE {})

\* a decode result nobody looks at
DecodeErrIgnored(buf) == FALSE

\* err = jsonToDot(e.buf, &t); if err != nil { return }
DecodeFails(buf) == ~jsonToDot(buf).ok

\* after once.Do: return err if set; decode, return the decode error; else
\* check a buffer out, reset it and render the fields into it
Render(p) ==
    /\ pc[p] = "body"
    /\ LET c == call[p] IN
       IF c.err # NoErr
       THEN /\ Returns(p, [c EXCEPT !.how = "init"], files)
            /\ bufB' = bufB
       ELSE IF DecodeFails(c.buf)
       THEN /\ Returns(p, [c EXCEPT !.err = DecodeErr, !.how = "decode"], files)
            /\ bufB' = bufB
       ELSE \E id \in Get :
            LET old == IF id <= Len(bufB) THEN bufB[id] ELSE <<>> IN
            /\ pool' = pool \ {id}
            /\ bufB' = IF id <= Len(bufB)
                       THEN [bufB EXCEPT ![id] = Encode(Reset(old), c.buf)]
                       ELSE Append(bufB, Encode(Reset(old), c.buf))
            /\ call' = [call EXCEPT ![p].b = id, ![p].gets = @ + 1,
                                     ![p].t = jsonToDot(c.buf),
                                     ![p].wire = Encode(Reset(old), c.buf)]
            /\ pc' = [pc EXCEPT ![p] = "send"]
            /\ UNCHANGED <<files, lastDone>>
    /\ UNCHANGED <<sink, hist, calls, seen, closeReturned>>

\* a datagram the socket accepted: destination, payload, passed descriptor
Datagram(data, fd) == [to |-> addr, data |-> data, fd |-> fd]

\* n, _, err = w.conn.WriteMsgUnix(b.B, nil, w.addr) and the tests after it
SendDirect(p) ==
    /\ pc[p] = "send"
    /\ LET B == bufB[call[p].b] IN
       \E r \in WriteMsgUnix(conn, Len(B), "send") :
       LET c == [call[p] EXCEPT !.n = r.n, !.err = r.err, !.sendErr = r.err,
                                !.direct = @ + 1] IN
       IF r.err = NoErr
       THEN Returns(p, [c EXCEPT !.out = Append(@, Datagram(B, 0)), !.how = "direct"], files)
       ELSE IF ~IsSizeLimit(r.err)
       THEN Returns(p, [c EXCEPT !.how = "senderr"], files)
       ELSE /\ call' = [call EXCEPT ![p] = c]
            /\ pc' = [pc EXCEPT ![p] = "tmp"]
            /\ UNCHANGED <<pool, files, lastDone>>
    /\ UNCHANGED <<sink, bufB, hist, calls, seen, closeReturned>>

(* ---- the tempfile fallback ---- *)
\* a fallback that carries on after a failed step
StepFailureIgnored(r) == FALSE

\* if err != nil { return } after each step of the fallback
StepFailed(r) == r # NoErr

\* file, err = ioutil.TempFile("/dev/shm/", "journal.XXXXX")
CreateTemp(p) ==
    /\ pc[p] = "tmp"
    /\ \E r \in TempFile :
       LET c  == [call[p] EXCEPT !.err = r]
           id == c.id IN
       IF StepFailed(r)
       THEN Returns(p, [c EXCEPT !.how = "tempfile"], files)
       ELSE /\ files' = (id :> [open |-> TRUE, named |-> TRUE, data |-> <<>>]) @@ files
            /\ call' = [call EXCEPT ![p] = [c EXCEPT !.file = id, !.tmp = @ + 1]]
            /\ pc' = [pc EXCEPT ![p] = "unlink"]
            /\ UNCHANGED <<pool, lastDone>>
    /\ UNCHANGED <<sink, bufB, hist, calls, seen, closeReturned>>

\* an unlink that leaves the name in place
UnlinkSkipped(fs, id) == fs

\* syscall.Unlink succeeded: the file has no name any more
Unlinked(fs, id) == [fs EXCEPT ![id].named = FALSE]

\* err = syscall.Unlink(file.Name()); on success, defer file.Close()
UnlinkTemp(p) ==
    /\ pc[p] = "unlink"
    /\ \E r \in Unlink :
       LET c == [call[p] EXCEPT !.err = r] IN
       IF StepFailed(r)
       THEN Returns(p, [c EXCEPT !.how = "unlink"], files)
       ELSE /\ files' = Unlinked(files, c.file)
            /\ call' = [call EXCEPT ![p] = [c EXCEPT !.deferClose = TRUE]]
            /\ pc' = [pc EXCEPT ![p] = "write"]
            /\ UNCHANGED <<pool, lastDone>>
    /\ UNCHANGED <<sink, bufB, hist, calls, seen, closeReturned>>

\* n, err = file.Write(b.B)
WriteTemp(p) ==
    /\ pc[p] = "write"
    /\ LET B == bufB[call[p].b] IN
       \E r \in FileWrite(Len(B)) :
       LET c  == [call[p] EXCEPT !.n = r.n, !.err = r.err]
           fs == [files EXCEPT ![c.file].data = SubSeq(B, 1, r.n)] IN
       IF StepFailed(r.err)
       THEN Returns(p, [c EXCEPT !.how = "write"], fs)
       ELSE /\ files' = fs
            /\ call' = [call EXCEPT ![p] = c]
            /\ pc' = [pc EXCEPT ![p] = "anc"]
            /\ UNCHANGED <<pool, lastDone>>
    /\ UNCHANGED <<sink, bufB, hist, calls, seen, closeReturned>>

\* the count file.Write left in n
AcceptedWritten(c) == c.n

\* the byte count reported when the descriptor was handed over
Accepted(c) == Len(c.buf)

\* _, _, err = w.conn.WriteMsgUnix([]byte{}, rights, w.addr); n = len(e.buf)
SendRights(p) ==
    /\ pc[p] = "anc"
    /\ \E r \in WriteMsgUnix(conn, 0, "anc") :
       LET c == [call[p] EXCEPT !.err = r.err, !.anc = @ + 1] IN
       IF r.err = NoErr
       THEN Returns(p, [c EXCEPT !.n = Accepted(c), !.out = Append(@, Datagram(<<>>, c.file)),
                                 !.how = "fallback"], files)
       ELSE Returns(p, [c EXCEPT !.how = "ancerr"], files)
    /\ UNCHANGED <<sink, bufB, hist, calls, seen, closeReturned>>

(* ---- Close ---- *)
\* What a goroutine reads in w.conn.  The field is written by the setup
\* function under the Once and read here with no synchronisation: a
\* goroutine that has not itself passed once.Do may still read nil.
ReadConn(p) == IF seen[p] THEN {conn} ELSE {conn, "nil"}

\* (*net.UnixConn).Close on a non-nil connection in state c
ConnClose(c) == IF c = "open" THEN NoErr ELSE ClosedErr("close")

Close(p) ==
    /\ pc[p] = "idle"
    /\ calls < MaxCalls
    /\ calls' = calls + 1
    /\ \E c \in ReadConn(p) :
       LET e == IF c # "nil" THEN ConnClose(c) ELSE NoErr IN
       /\ conn' = IF c # "nil" THEN "closed" ELSE conn
       /\ call' = [call EXCEPT ![p] =
                     [NoCall EXCEPT !.op = "Close", !.id = calls + 1, !.err = e,
                                    !.afterClose = closeReturned,
                                    !.afterInitFail = (setupErr # NoErr),
                                    !.prev = lastDone,
                                    !.how = IF c # "nil" THEN "closed" ELSE "noconn"]]
       /\ lastDone' = [op |-> "Close", err |-> e]
    /\ closeReturned' = TRUE
    /\ UNCHANGED <<JournalSocket, done, m, addr, world, hist, pc, seen>>

(* ---- the system ---- *)
Next ==
    \/ \E p \in Procs, buf \in Entries : Start(p, buf)
    \/ \E p \in Procs : OnceDo(p)
    \/ \E p \in Procs : OnceLock(p)
    \/ \E p \in Procs : OnceSlow(p)
    \/ \E p \in Procs : Render(p)
    \/ \E p \in Procs : SendDirect(p)
    \/ \E p \in Procs : CreateTemp(p)
    \/ \E p \in Procs : UnlinkTemp(p)
    \/ \E p \in Procs : WriteTemp(p)
    \/ \E p \in Procs : SendRights(p)
    \/ \E p \in Procs : Close(p)

Spec == Init /\ [][Next]_vars

(* ---- the encoder on its own ---- *)
(* A second specification for the properties of the rendered bytes: one    *)
(* call that is past decoding, holding a decoded record t and raw bytes    *)
(* e.buf drawn from the sets below and a pooled buffer with some earlier   *)
(* content, renders the record.  The encoder reads e.buf as opaque bytes.  *)
MaxFields == 2         \* key/value pairs of a record
LongLen   == 300       \* byte length of the long multi-line value

Levels == {"trace", "debug", "info", "warn", "error", "fatal", "panic", "unknown"}

\* a value longer than one length byte can count, with a newline inside
LongValue == [i \in 1..LongLen |-> IF i = 150 THEN NL ELSE 97]

\* "hi", "a\nb", the long value
Messages == {<<104, 105>>, <<97, 10, 98>>, LongValue}

\* ("user","x=1"), ("user","y\nz"), ("a=b","v"), ("k\nk","v")
Pairs == {[Key |-> <<117, 115, 101, 114>>, Value |-> <<120, 61, 49>>],
          [Key |-> <<117, 115, 101, 114>>, Value |-> <<121, 10, 122>>],
          [Key |-> <<97, 61, 98>>, Value |-> <<118>>],
          [Key |-> <<107, 10, 107>>, Value |-> <<118>>]}

KeyValues == UNION {[1..k -> Pairs] : k \in 0..MaxFields}

Dots == [ok : {TRUE}, Level : Levels, Message : Messages, KeyValue : KeyValues]

\* {"a":1} and {\n"a":1}
Raws == {<<123, 34, 97, 34, 58, 49, 125>>, <<123, 10, 34, 97, 34, 58, 49, 125>>}

\* what an earlier use left in the pooled buffer
Residues == {<<>>, <<74, 83, 79, 78, 61, 123, 125, 10>>}

EncInit ==
    /\ JournalSocket = ""
    /\ done = 1
    /\ m = 0
    /\ addr = DefaultSocket
    /\ conn = "open"
    /\ pool = {}
    /\ bufB \in {<<r>> : r \in Residues}
    /\ files = <<>>
    /\ pc = [p \in Procs |-> IF p = 1 THEN "enc" ELSE "idle"]
    /\ calls = 1
    /\ \E t \in Dots, raw \in Raws :
         call = [p \in Procs |->
                   IF p = 1
                   THEN [NoCall EXCEPT !.op = "WriteEntry", !.id = 1, !.buf = raw,
                                       !.t = t, !.ranSetup = TRUE,
                                       !.b = 1, !.gets = 1]
                   ELSE NoCall]
    /\ seen = [p \in Procs |-> p = 1]
    /\ setupRuns = 1
    /\ endpoints = 1
    /\ setupErr = NoErr
    /\ closeReturned = FALSE
    /\ lastDone = [op |-> "none", err |-> NoErr]

\* b.B = b.B[:0] and the print calls of the call that holds the buffer
EncRender(p) ==
    /\ pc[p] = "enc"
    /\ LET c == call[p]
           B == EncodeDot(Reset(bufB[c.b]), c.t, c.buf) IN
       /\ bufB' = [bufB EXCEPT ![c.b] = B]
       /\ call' = [call EXCEPT ![p].wire = B]
    /\ pc' = [pc EXCEPT ![p] = "send"]
    /\ UNCHANGED <<sink, pool, files, hist, calls, seen, closeReturned, lastDone>>

EncNext == \E p \in Procs : EncRender(p)

EncSpec == EncInit /\ [][EncNext]_vars

(* ---- vocabulary of the properties ---- *)
\* goroutine p has a WriteEntry call that has returned
Returned(p) == pc[p] = "idle" /\ call[p].op = "WriteEntry"
\* goroutine p is inside WriteEntry, past once.Do
PastOnce(p) == pc[p] \in {"body", "send", "tmp", "unlink", "write", "anc"}
\* goroutine p is inside the tempfile fallback
InFallback(p) == pc[p] \in {"tmp", "unlink", "write", "anc"}
\* the call sent nothing and touched neither pool nor filesystem
SentNothing(c) ==
    /\ c.out = <<>>
    /\ c.direct = 0
    /\ c.anc = 0
    /\ c.tmp = 0

(* C1: once setup has failed in some WriteEntry call, that call and every  *)
(* WriteEntry call started afterwards return the setup error, setup is not *)
(* run again, and no datagram send is attempted.                           *)
C1_InitFailureSticky ==
    /\ setupRuns <= 1
    /\ \A p \in Procs :
         (/\ Returned(p)
          /\ setupErr # NoErr
          /\ (call[p].afterInitFail \/ call[p].ranSetup))
         => /\ call[p].err = setupErr
            /\ call[p].direct = 0
            /\ call[p].anc = 0

(* C2: whatever the number of concurrent first calls and of later calls,   *)
(* the setup function runs exactly once: never twice, once for every call  *)
(* that got past once.Do, and it creates at most one socket.               *)
C2_SetupExactlyOnce ==
    /\ setupRuns <= 1
    /\ endpoints <= 1
    /\ (done = 1) = (setupRuns = 1)
    /\ \A p \in Procs : (PastOnce(p) \/ (Returned(p) /\ call[p].id > 0)) => setupRuns = 1
    /\ Cardinality({p \in Procs : call[p].op = "WriteEntry" /\ call[p].ranSetup}) <= 1

\* the calls that raced through the first use are all past once.Do: one of
\* them ran the setup, the others did not
C2_Witness ==
    /\ \A p \in Procs : PastOnce(p) /\ ~call[p].afterInitFail /\ call[p].id <= NumProcs
    /\ \E p \in Procs : call[p].ranSetup
    /\ \E p \in Procs : ~call[p].ranSetup

(* C3: under concurrent first calls every caller sees the outcome of the   *)
(* one setup run: after a successful setup every caller past once.Do has   *)
(* the endpoint, after a failed one every caller returns the setup error   *)
(* without decoding, encoding or sending.                                  *)
C3_AllCallersObserveSetup ==
    \A p \in Procs :
      /\ (PastOnce(p) /\ setupErr = NoErr) => (conn # "nil" /\ addr # "nil")
      /\ (Returned(p) /\ setupErr # NoErr /\ ~call[p].afterInitFail)
         => /\ call[p].err = setupErr
            /\ call[p].how = "init"
            /\ call[p].gets = 0
            /\ SentNothing(call[p])

(* C4: the fallback is entered only after the direct send failed with      *)
(* EMSGSIZE or ENOBUFS; after any other failure of the direct send no temp *)
(* file is created, no second send is made and that error is returned.     *)
C4_FallbackOnlyOnSizeLimit ==
    \A p \in Procs :
      /\ (call[p].op = "WriteEntry" /\ (InFallback(p) \/ call[p].tmp > 0 \/ call[p].anc > 0))
         => /\ call[p].direct = 1
            /\ call[p].sendErr.type = "OpError"
            /\ call[p].sendErr.inner = "SyscallError"
            /\ call[p].sendErr.errno \in {"EMSGSIZE", "ENOBUFS"}
      /\ (/\ Returned(p)
          /\ call[p].sendErr # NoErr
          /\ call[p].sendErr.errno \notin {"EMSGSIZE", "ENOBUFS"})
         => /\ call[p].err = call[p].sendErr
            /\ call[p].tmp = 0
            /\ call[p].anc = 0
            /\ call[p].out = <<>>
            /\ call[p].id \notin DOMAIN files

\* a direct send refused for a cause that is no size limit has returned
C4_Witness ==
    \E p \in Procs :
      /\ Returned(p)
      /\ call[p].sendErr.errno = "ECONNREFUSED"
      /\ call[p].err = call[p].sendErr
      /\ call[p].direct = 1

(* C5 as stated: after a size-limit failure and a successful ancillary     *)
(* send, WriteEntry returns no error and n = the length of the encoded     *)
(* wire payload.                                                           *)
C5_ReportsWireLength ==
    \A p \in Procs :
      (Returned(p) /\ call[p].how = "fallback")
      => (call[p].err = NoErr /\ call[p].n = Len(call[p].wire))

(* C5 amended: after a size-limit failure and a successful ancillary send, *)
(* WriteEntry returns no error and n = the length of the raw input record  *)
(* e.buf, which is neither the zero-length datagram nor the (longer)       *)
(* encoded wire payload.                                                   *)
C5_ReportsRecordLength ==
    \A p \in Procs :
      (Returned(p) /\ IsSizeLimit(call[p].sendErr) /\ call[p].anc = 1
                   /\ Len(call[p].out) = 1)
      => /\ call[p].err = NoErr
         /\ call[p].n = Len(call[p].buf)
         /\ call[p].n > 0
         /\ call[p].n < Len(call[p].wire)
         /\ call[p].out[1].data = <<>>

\* a fallback has succeeded for the multi-line record
C5_Witness ==
    \E p \in Procs :
      /\ Returned(p)
      /\ call[p].how = "fallback"
      /\ call[p].buf = MultiBuf
      /\ call[p].sendErr.errno = "EMSGSIZE"

(* C6: every temp file of the fallback has its descriptor closed by the    *)
(* time the WriteEntry call that created it returns.                       *)
C6_TempClosedOnReturn ==
    \A id \in DOMAIN files :
      files[id].open => \E p \in Procs : pc[p] # "idle" /\ call[p].id = id

(* C7: a call that checks a buffer out puts it back exactly once before it *)
(* returns, on every exit path; a call that returns on the setup or the    *)
(* decode error takes none and puts none back.                             *)
C7_BufferReturnedOnce ==
    /\ \A p \in Procs :
         /\ call[p].gets <= 1
         /\ call[p].puts <= call[p].gets
         /\ (call[p].b # 0) = (call[p].gets = 1 /\ call[p].puts = 0)
         /\ call[p].b # 0 => (pc[p] \in {"send", "tmp", "unlink", "write", "anc"}
                              /\ call[p].b \notin pool)
         /\ Returned(p) =>
              /\ call[p].puts = call[p].gets
              /\ call[p].how \in {"init", "decode"} => call[p].gets = 0
              /\ call[p].how \notin {"init", "decode"} => call[p].gets = 1
    /\ Cardinality(pool) + Cardinality({p \in Procs : call[p].b # 0}) = Len(bufB)

\* a call whose fallback failed at the ancillary send has returned its buffer
C7_Witness ==
    \E p \in Procs :
      /\ Returned(p)
      /\ call[p].how = "ancerr"
      /\ call[p].err # NoErr
      /\ call[p].puts = 1

(* C8: every WriteEntry call started after a Close has returned fails and  *)
(* delivers no datagram, whether or not the sink had been used before.     *)
C8_WriteAfterCloseFails ==
    \A p \in Procs :
      (Returned(p) /\ call[p].afterClose)
      => (call[p].err # NoErr /\ call[p].out = <<>>)

(* C9: a Close that directly follows another Close returns what the first  *)
(* one returned, and reports no error.                                     *)
C9_CloseIdempotent ==
    \A p \in Procs :
      (pc[p] = "idle" /\ call[p].op = "Close" /\ call[p].prev.op = "Close")
      => (call[p].err = call[p].prev.err /\ call[p].err = NoErr)

(* C10: a call whose record does not decode returns the decode error with  *)
(* n = 0, sends nothing, creates no temp file, checks no buffer out, and   *)
(* its return leaves the sink (Once, address, connection) as it was.       *)
C10_DecodeErrorState ==
    \A p \in Procs :
      (Returned(p) /\ ~jsonToDot(call[p].buf).ok)
      => /\ call[p].n = 0
         /\ call[p].err # NoErr
         /\ SentNothing(call[p])
         /\ call[p].gets = 0
         /\ call[p].id \notin DOMAIN files
         /\ call[p].how \in {"decode", "init"}
         /\ call[p].how = "decode" => call[p].err = DecodeErr
         /\ call[p].how = "init" => (call[p].ranSetup /\ call[p].err = setupErr)

C10_DecodeErrorStep ==
    \A p \in Procs :
      (pc[p] = "body" /\ pc'[p] = "idle" /\ call'[p].how = "decode")
      => UNCHANGED <<sink, world, hist>>

C10_DecodeErrorAborts == []C10_DecodeErrorState /\ [][C10_DecodeErrorStep]_vars

\* a record that does not decode was refused on a sink whose endpoint is up
C10_Witness ==
    \E p \in Procs :
      /\ Returned(p)
      /\ call[p].how = "decode"
      /\ call[p].buf = BadBuf
      /\ call[p].err = DecodeErr
      /\ conn = "open"

(* ---- vocabulary of the encoder properties ---- *)
\* goroutine p holds a buffer with its record rendered into it
Rendered(p) == pc[p] = "send" /\ call[p].gets = 1 /\ call[p].b # 0

\* the fields a record is to be emitted as, in order
Fields(t, raw) ==
    << [name |-> PRIORITY, value |-> priority(t.Level)],
       [name |-> MESSAGE, value |-> t.Message] >>
    \o [i \in 1..Len(t.KeyValue) |->
          [name |-> ToUpper(t.KeyValue[i].Key), value |-> t.KeyValue[i].Value]]
    \o << [name |-> JSON, value |-> raw] >>

HasByte(s, c) == \E i \in 1..Len(s) : s[i] = c

\* bytes one field takes on the wire
FieldLen(f) == Len(f.name) + Len(f.value) + (IF HasByte(f.value, NL) THEN 10 ELSE 2)

\* offset of field i of fs on the wire (bytes before it)
RECURSIVE FieldOff(_, _)
FieldOff(fs, i) == IF i = 1 THEN 0 ELSE FieldOff(fs, i - 1) + FieldLen(fs[i - 1])

\* first index j >= i of s with s[j] in set, 0 if none
IndexFrom(s, i, set) ==
    LET J == {j \in i..Len(s) : s[j] \in set} IN
    IF J = {} THEN 0 ELSE CHOOSE j \in J : \A k \in J : j <= k

Malformed == [name |-> <<>>, value |-> "malformed"]

\* a reader of the export format: name, then "=" value "\n", or "\n" and an
\* 8-byte little-endian length (below 65536 here), the value, "\n"
RECURSIVE ParseExport(_, _)
ParseExport(s, i) ==
    IF i > Len(s) THEN <<>>
    ELSE LET j == IndexFrom(s, i, {EQ, NL}) IN
         IF j = 0 THEN <<Malformed>>
         ELSE IF s[j] = EQ
         THEN LET e == IndexFrom(s, j + 1, {NL}) IN
              IF e = 0 THEN <<Malformed>>
              ELSE <<[name |-> SubSeq(s, i, j - 1), value |-> SubSeq(s, j + 1, e - 1)]>>
                   \o ParseExport(s, e + 1)
         ELSE IF j + 8 > Len(s) \/ \E k \in 3..8 : s[j + k] # 0 THEN <<Malformed>>
         ELSE LET k == s[j + 1] + 256 * s[j + 2] IN
              IF j + 9 + k > Len(s) \/ s[j + 9 + k] # NL THEN <<Malformed>>
              ELSE <<[name |-> SubSeq(s, i, j - 1), value |-> SubSeq(s, j + 9, j + 8 + k)]>>
                   \o ParseExport(s, j + 10 + k)

\* a reader that knows the plain rule only: split into lines, split each
\* line at its first "="
RECURSIVE ParsePlain(_, _)
ParsePlain(s, i) ==
    IF i > Len(s) THEN <<>>
    ELSE LET e == IndexFrom(s, i, {NL}) IN
         IF e = 0 THEN <<Malformed>>
         ELSE LET j == IndexFrom(SubSeq(s, 1, e - 1), i, {EQ}) IN
              IF j = 0 THEN <<Malformed>> \o ParsePlain(s, e + 1)
              ELSE <<[name |-> SubSeq(s, i, j - 1), value |-> SubSeq(s, j + 1, e - 1)]>>
                   \o ParsePlain(s, e + 1)

CleanKeys(t) ==
    \A i \in 1..Len(t.KeyValue) :
      ~HasByte(t.KeyValue[i].Key, EQ) /\ ~HasByte(t.KeyValue[i].Key, NL)

SingleLine(t, raw) ==
    /\ ~HasByte(t.Message, NL)
    /\ ~HasByte(raw, NL)
    /\ \A i \in 1..Len(t.KeyValue) : ~HasByte(t.KeyValue[i].Value, NL)

(* C11: the payload of every decoded record is PRIORITY, MESSAGE, one      *)
(* field per key/value pair in the record's order (duplicates kept, names  *)
(* uppercased), and JSON with the raw input bytes last: the rendered bytes *)
(* are those fields' encodings laid end to end, and a reader of the export *)
(* format gets that list back whenever the keys hold no "=" or newline.    *)
C11_FieldOrder ==
    \A p \in Procs :
      Rendered(p) =>
        LET c  == call[p]
            fs == Fields(c.t, c.buf)
            w  == bufB[c.b] IN
        /\ Len(fs) = Len(c.t.KeyValue) + 3
        /\ Len(w) = FieldOff(fs, Len(fs)) + FieldLen(fs[Len(fs)])
        /\ \A i \in 1..Len(fs) :
             SubSeq(w, FieldOff(fs, i) + 1, FieldOff(fs, i) + FieldLen(fs[i]))
               = print(<<>>, fs[i].name, fs[i].value)
        /\ fs[Len(fs)].value = c.buf
        /\ CleanKeys(c.t) => ParseExport(w, 1) = fs

\* a record with the same key twice, in lower case, has been rendered
C11_Witness ==
    \E p \in Procs :
      /\ Rendered(p)
      /\ Len(call[p].t.KeyValue) = 2
      /\ call[p].t.KeyValue[1].Key = <<117, 115, 101, 114>>
      /\ call[p].t.KeyValue[2].Key = <<117, 115, 101, 114>>
      /\ call[p].t.KeyValue[1].Value # call[p].t.KeyValue[2].Value
      /\ ParseExport(bufB[call[p].b], 1)[3].name = <<85, 83, 69, 82>>

(* C12: every emitted field whose value holds a newline is name, "\n", the *)
(* value's byte length as 8 little-endian bytes, the value, "\n"; every    *)
(* other field is name, "=", value, "\n".  Nothing but the value's         *)
(* newlines decides the form.                                              *)
C12_FieldForm ==
    \A p \in Procs :
      Rendered(p) =>
        LET c  == call[p]
            fs == Fields(c.t, c.buf)
            w  == bufB[c.b] IN
        \A i \in 1..Len(fs) :
          LET nm  == fs[i].name
              v   == fs[i].value
              off == FieldOff(fs, i) + Len(nm) IN
          /\ off + 1 <= Len(w)
          /\ SubSeq(w, FieldOff(fs, i) + 1, off) = nm
          /\ IF \E k \in 1..Len(v) : v[k] = 10
             THEN /\ off + 10 + Len(v) <= Len(w)
                  /\ w[off + 1] = 10
                  /\ \A k \in 4..9 : w[off + k] = 0
                  /\ w[off + 2] + 256 * w[off + 3] = Len(v)
                  /\ SubSeq(w, off + 10, off + 9 + Len(v)) = v
                  /\ w[off + 10 + Len(v)] = 10
             ELSE /\ off + 2 + Len(v) <= Len(w)
                  /\ w[off + 1] = 61
                  /\ SubSeq(w, off + 2, off + 1 + Len(v)) = v
                  /\ w[off + 2 + Len(v)] = 10

\* a record was rendered whose message takes two length bytes, next to a
\* field with a newline in its name only and one with a newline in its value
C12_Witness ==
    \E p \in Procs :
      /\ Rendered(p)
      /\ call[p].t.Message = LongValue
      /\ Len(call[p].t.Message) > 255
      /\ Len(call[p].t.KeyValue) = 2
      /\ call[p].t.KeyValue[1] = [Key |-> <<107, 10, 107>>, Value |-> <<118>>]
      /\ call[p].t.KeyValue[2] = [Key |-> <<117, 115, 101, 114>>, Value |-> <<121, 10, 122>>]
      /\ Len(bufB[call[p].b]) > Len(call[p].t.Message)

(* C13: the PRIORITY field is fixed by the level alone: trace 7, debug 7,  *)
(* info 6, warn 4, error 3, fatal 2, panic 0, any other level 5; its value *)
(* is always one digit between 0 and 7.                                    *)
C13_PriorityMapping ==
    \A p \in Procs :
      Rendered(p) =>
        LET lv == call[p].t.Level
            w  == bufB[call[p].b]
            d  == CASE lv = "trace" -> 7
                    [] lv = "debug" -> 7
                    [] lv = "info"  -> 6
                    [] lv = "warn"  -> 4
                    [] lv = "error" -> 3
                    [] lv = "fatal" -> 2
                    [] lv = "panic" -> 0
                    [] OTHER        -> 5 IN
        /\ Len(w) >= 11
        /\ SubSeq(w, 1, 8) = <<80, 82, 73, 79, 82, 73, 84, 89>>
        /\ w[9] = 61
        /\ w[10] = 48 + d
        /\ w[10] \in 48..55
        /\ w[11] = 10

\* every level has been rendered, the seven named ones and an unknown one
C13_Witness ==
    /\ \E p \in Procs : Rendered(p) /\ call[p].t.Level = "warn" /\ bufB[call[p].b][10] = 52
    /\ Levels = {"trace", "debug", "info", "warn", "error", "fatal", "panic", "unknown"}

(* C14 as stated: for every record whose values are all single-line, keys  *)
(* being arbitrary, splitting the emitted bytes into lines and each line   *)
(* at its "=" gives back the emitted (name, value) pairs, in order and in  *)
(* number.                                                                 *)
C14_PlainRoundTripAnyKey ==
    \A p \in Procs :
      (Rendered(p) /\ SingleLine(call[p].t, call[p].buf))
      => ParsePlain(bufB[call[p].b], 1) = Fields(call[p].t, call[p].buf)

(* C14 amended: for every record whose values are all single-line and      *)
(* whose keys hold neither "=" nor a newline, splitting the emitted bytes  *)
(* into lines and each line at its first "=" gives back the emitted        *)
(* (name, value) pairs, in order and in number.                            *)
C14_PlainRoundTrip ==
    \A p \in Procs :
      (Rendered(p) /\ SingleLine(call[p].t, call[p].buf) /\ CleanKeys(call[p].t))
      => /\ ParsePlain(bufB[call[p].b], 1) = Fields(call[p].t, call[p].buf)
         /\ Len(ParsePlain(bufB[call[p].b], 1)) = Len(call[p].t.KeyValue) + 3

\* a single-line record with two fields whose value holds a "=" was rendered
C14_Witness ==
    \E p \in Procs :
      /\ Rendered(p)
      /\ SingleLine(call[p].t, call[p].buf)
      /\ CleanKeys(call[p].t)
      /\ Len(call[p].t.KeyValue) = 2
      /\ call[p].t.KeyValue[2].Value = <<120, 61, 49>>
      /\ ParsePlain(bufB[call[p].b], 1)[4].value = <<120, 61, 49>>

(* C15: whenever WriteEntry returns an error, the count it returns is zero *)
(* or a partial count, never the full length of the encoded payload.       *)
C15_ErrorMeansNotAllAccepted ==
    \A p \in Procs :
      (Returned(p) /\ call[p].err # NoErr)
      => (call[p].n = 0 \/ call[p].n < Len(call[p].wire))

(* C16: nothing is retried or queued: a call makes at most one direct send *)
(* and at most one ancillary send, the ancillary one only after its own    *)
(* direct send failed, the fallback steps are taken once each and in       *)
(* order, and a step that fails ends the call with that step's error and   *)
(* with nothing sent.                                                      *)
C16_AtMostOneOfEach ==
    \A p \in Procs :
      call[p].op = "WriteEntry" =>
        /\ call[p].direct <= 1
        /\ call[p].anc <= 1
        /\ call[p].tmp <= 1
        /\ Len(call[p].out) <= 1
        /\ (call[p].anc = 1 \/ call[p].tmp = 1 \/ InFallback(p))
           => (call[p].direct = 1 /\ call[p].sendErr # NoErr)
        /\ (Returned(p) /\ call[p].err # NoErr) => call[p].out = <<>>

C16_FallbackStep ==
    \A p \in Procs :
      (InFallback(p) /\ pc'[p] # pc[p]) =>
        /\ pc'[p] \in {"idle", CASE pc[p] = "tmp"    -> "unlink"
                                 [] pc[p] = "unlink" -> "write"
                                 [] pc[p] = "write"  -> "anc"
                                 [] OTHER            -> "idle"}
        /\ call'[p].err # NoErr =>
             /\ pc'[p] = "idle"
             /\ call'[p].err.origin = CASE pc[p] = "tmp"    -> "tempfile"
                                        [] pc[p] = "unlink" -> "unlink"
                                        [] pc[p] = "write"  -> "write"
                                        [] OTHER            -> "anc"
        /\ (pc'[p] = "idle" /\ call'[p].err = NoErr) => pc[p] = "anc"

C16_NoRetry == []C16_AtMostOneOfEach /\ [][C16_FallbackStep]_vars

\* a call has ended on the error of a fallback step, after one direct send
C16_Witness ==
    \E p \in Procs :
      /\ Returned(p)
      /\ call[p].err.origin = "write"
      /\ call[p].direct = 1
      /\ call[p].tmp = 1
      /\ call[p].anc = 0

(* C17: within one fallback the file is created, unlinked, written, its    *)
(* descriptor sent alone on an empty datagram, and closed, in that order:  *)
(* a file that still has a name holds no payload byte and is not being     *)
(* passed, and the descriptor is passed only once the whole encoded        *)
(* payload is in the file.                                                 *)
C17_FallbackStates ==
    /\ \A id \in DOMAIN files : files[id].named => files[id].data = <<>>
    /\ \A p \in Procs :
         /\ pc[p] = "unlink" =>
              /\ call[p].file \in DOMAIN files
              /\ files[call[p].file] = [open |-> TRUE, named |-> TRUE, data |-> <<>>]
         /\ pc[p] = "write" =>
              /\ call[p].file \in DOMAIN files
              /\ files[call[p].file] = [open |-> TRUE, named |-> FALSE, data |-> <<>>]
         /\ pc[p] = "anc" =>
              /\ call[p].file \in DOMAIN files
              /\ files[call[p].file] =
                   [open |-> TRUE, named |-> FALSE, data |-> call[p].wire]
              /\ call[p].wire = bufB[call[p].b]
              /\ call[p].wire # <<>>
         /\ pc[p] \in {"once", "lock", "slow", "body", "send", "tmp"} =>
              call[p].id \notin DOMAIN files

C17_PassStep ==
    \A p \in Procs :
      (pc[p] = "anc" /\ pc'[p] # "anc") =>
        /\ call'[p].anc = 1
        /\ call[p].file \notin DOMAIN files'
        /\ call'[p].out # <<>> =>
             call'[p].out = << [to |-> addr, data |-> <<>>, fd |-> call[p].file] >>

C17_FallbackOrder == []C17_FallbackStates /\ [][C17_PassStep]_vars

\* the descriptor of an unlinked, fully written file has been passed
C17_Witness ==
    \E p \in Procs :
      /\ Returned(p)
      /\ call[p].how = "fallback"
      /\ Len(call[p].out) = 1
      /\ call[p].out[1].fd = call[p].id
      /\ call[p].out[1].data = <<>>
      /\ call[p].id \notin DOMAIN files

(* C18: under every interleaving a checked-out buffer belongs to exactly   *)
(* one call in flight, from checkout to release: no two calls hold the     *)
(* same buffer, nobody else writes into it, and what a call sends as       *)
(* datagram or puts in its temp file are the bytes it rendered itself.     *)
C18_BufferExclusive ==
    /\ \A p, q \in Procs :
         (p # q /\ call[p].b # 0 /\ call[q].b # 0) => call[p].b # call[q].b
    /\ \A p \in Procs :
         /\ call[p].b # 0 =>
              /\ pc[p] # "idle"
              /\ call[p].b \notin pool
              /\ bufB[call[p].b] = call[p].wire
              /\ call[p].wire = EncodeDot(<<>>, jsonToDot(call[p].buf), call[p].buf)
         /\ (call[p].op = "WriteEntry" /\ call[p].id \in DOMAIN files) =>
              \E k \in 0..Len(call[p].wire) :
                files[call[p].id].data = SubSeq(call[p].wire, 1, k)
         /\ (Returned(p) /\ call[p].direct = 1 /\ call[p].out # <<>> /\ call[p].anc = 0) =>
              /\ call[p].out[1].data = call[p].wire
              /\ call[p].wire = EncodeDot(<<>>, jsonToDot(call[p].buf), call[p].buf)

\* two calls are in flight with a buffer each, rendering different records
C18_Witness ==
    \E p, q \in Procs :
      /\ p # q
      /\ pc[p] = "send"
      /\ pc[q] = "anc"
      /\ call[p].b # 0
      /\ call[q].b # 0
      /\ call[p].buf # call[q].buf

(* C19: once setup has completed no WriteEntry step changes w.addr or      *)
(* w.conn again, whatever the call's outcome, and every datagram of the    *)
(* sink goes to the destination fixed at setup: the configured name if it  *)
(* is not empty, the well-known path otherwise.                            *)
C19_Addressed ==
    LET dest == IF JournalSocket = "" THEN "/run/systemd/journal/socket"
                                      ELSE JournalSocket IN
    /\ done = 1 => addr = dest
    /\ done = 0 => (addr = "nil" /\ conn = "nil")
    /\ \A p \in Procs : \A i \in 1..Len(call[p].out) : call[p].out[i].to = dest

\* the step is a call of Close
C19_IsClose == calls' = calls + 1 /\ \E p \in Procs : call'[p].op = "Close" /\ call'[p].id = calls'

C19_Frame ==
    /\ JournalSocket' = JournalSocket
    /\ done = 1 =>
         /\ done' = 1
         /\ addr' = addr
         /\ conn' # conn => (C19_IsClose /\ conn' = "closed")
         /\ endpoints' = endpoints

C19_EndpointReadOnly == []C19_Addressed /\ [][C19_Frame]_vars

\* a later call on a sink with a configured socket name has sent to that name
C19_Witness ==
    \E p \in Procs :
      /\ Returned(p)
      /\ JournalSocket = "/custom/socket"
      /\ call[p].id >= 2
      /\ ~call[p].ranSetup
      /\ call[p].out # <<>>
      /\ call[p].out[1].to = "/custom/socket"

(* C20: what a call renders depends on its record only: the buffer's       *)
(* length is reset at checkout, so the same record rendered after any      *)
(* earlier writes through the same pooled buffer, longer or shorter, gives *)
(* the same bytes, those of a rendering into an empty buffer, with nothing *)
(* left over from earlier payloads.                                        *)
C20_NoResidue ==
    \A p \in Procs :
      (call[p].op = "WriteEntry" /\ call[p].gets = 1) =>
        LET fs == Fields(jsonToDot(call[p].buf), call[p].buf) IN
        /\ Len(call[p].wire) = FieldOff(fs, Len(fs)) + FieldLen(fs[Len(fs)])
        /\ SubSeq(call[p].wire, 1, 9) = PRIORITY \o <<EQ>>
        /\ ParseExport(call[p].wire, 1) = fs
        /\ \A q \in Procs :
             (call[q].op = "WriteEntry" /\ call[q].gets = 1 /\ call[q].buf = call[p].buf)
             => call[q].wire = call[p].wire

\* a short record was rendered into the one pooled buffer that had held a
\* longer rendering before
C20_Witness ==
    \E p, q \in Procs :
      /\ p # q
      /\ Len(bufB) = 1
      /\ Returned(q) /\ call[q].gets = 1 /\ call[q].buf = MultiBuf
      /\ pc[p] = "send" /\ call[p].b = 1 /\ call[p].buf = InfoBuf
      /\ call[p].id > call[q].id
      /\ Len(call[p].wire) < Len(call[q].wire)

====
